---- MODULE Spec2Model ----
(***************************************************************************)
(* Model of mobile_capacity.capacity.Capacity: the radio capacity formulas *)
(* (get_dl_bitrate, poiddatareq, brrbpopcd, upoprbu, cellavcap, sufcapch)  *)
(* and the buffer/ring aggregation of calculate_buffer_areas.              *)
(*                                                                         *)
(* Floating point values are modelled as exact rationals extended with the *)
(* IEEE specials NaN, +inf and -inf; rounding is not modelled.             *)
(***************************************************************************)
EXTENDS Integers, Sequences, FiniteSets, TLC

(***************************************************************************)
(* Bounds of the model                                                     *)
(***************************************************************************)
\* longest batch (array argument) passed to a vectorised method
MaxBatch == 2

\* the study area is a line of NCells cells, each one radius step wide
NCells == 4

(***************************************************************************)
(* Floating point values                                                   *)
(***************************************************************************)
RECURSIVE Gcd(_, _)
Gcd(a, b) == IF b = 0 THEN a ELSE Gcd(b, a % b)

Abs(x) == IF x < 0 THEN 0 - x ELSE x

Sign(x) == IF x < 0 THEN 0 - 1 ELSE IF x = 0 THEN 0 ELSE 1

NaN == [t |-> "nan", n |-> 0, d |-> 1]

PInf == [t |-> "inf", n |-> 1, d |-> 1]

NInf == [t |-> "inf", n |-> 0 - 1, d |-> 1]

\* the rational n/d in lowest terms, d > 0
Rat(n, d) ==
    LET g == Gcd(Abs(n), Abs(d))
        s == Sign(d)
    IN  [t |-> "num", n |-> s * Sign(n) * (Abs(n) \div g), d |-> Abs(d) \div g]

Num(n) == [t |-> "num", n |-> n, d |-> 1]

IsNaN(x) == x.t = "nan"

IsNum(x) == x.t = "num"

IsInf(x) == x.t = "inf"

FNeg(x) == IF IsNaN(x) THEN NaN ELSE [x EXCEPT !.n = 0 - x.n]

\* sign of a value that is not NaN
FSign(x) == Sign(x.n)

FAdd(x, y) ==
    IF IsNaN(x) \/ IsNaN(y) THEN NaN
    ELSE IF IsInf(x) /\ IsInf(y) THEN (IF x.n = y.n THEN x ELSE NaN)
    ELSE IF IsInf(x) THEN x
    ELSE IF IsInf(y) THEN y
    ELSE LET g == Gcd(x.d, y.d)
         IN  Rat(x.n * (y.d \div g) + y.n * (x.d \div g), (x.d \div g) * y.d)

FSub(x, y) == FAdd(x, FNeg(y))

FMul(x, y) ==
    IF IsNaN(x) \/ IsNaN(y) THEN NaN
    ELSE IF IsInf(x) \/ IsInf(y)
         THEN (IF FSign(x) * FSign(y) = 0 THEN NaN
               ELSE IF FSign(x) * FSign(y) > 0 THEN PInf ELSE NInf)
    ELSE LET g1 == Gcd(Abs(x.n), y.d)
             g2 == Gcd(Abs(y.n), x.d)
             h1 == IF g1 = 0 THEN 1 ELSE g1
             h2 == IF g2 = 0 THEN 1 ELSE g2
         IN  Rat(Sign(x.n) * Sign(y.n) * (Abs(x.n) \div h1) * (Abs(y.n) \div h2),
                 (x.d \div h2) * (y.d \div h1))

\* numpy true division: x/0 is +-inf, 0/0 is NaN, never an exception
FDiv(x, y) ==
    IF IsNaN(x) \/ IsNaN(y) THEN NaN
    ELSE IF IsInf(y) THEN (IF IsInf(x) THEN NaN ELSE Num(0))
    ELSE IF y.n = 0
         THEN (IF FSign(x) = 0 THEN NaN ELSE IF FSign(x) > 0 THEN PInf ELSE NInf)
    ELSE FMul(x, [t |-> "num", n |-> Sign(y.n) * y.d, d |-> Abs(y.n)])

\* x > y; every comparison with NaN is false
FGt(x, y) ==
    IF IsNaN(x) \/ IsNaN(y) THEN FALSE
    ELSE IF IsInf(x) THEN x.n > 0 /\ y # x
    ELSE IF IsInf(y) THEN y.n < 0
    ELSE LET g == Gcd(x.d, y.d)
         IN  x.n * (y.d \div g) > y.n * (x.d \div g)

FGe(x, y) == IF IsNaN(x) \/ IsNaN(y) THEN FALSE ELSE x = y \/ FGt(x, y)

FLe(x, y) == FGe(y, x)

(***************************************************************************)
(* Python values handed to the vectorised methods                          *)
(***************************************************************************)
\* a non-numeric element (a string such as "abc"): float() of it raises
Str == [t |-> "str", n |-> 0, d |-> 1]

\* Python None, which numpy converts to NaN
None == [t |-> "none", n |-> 0, d |-> 1]

\* an array held in memory: every element computed once, when the array is made
Stored(s) == s \o <<>>

\* a scalar argument and a list/Series argument
Scalar(v) == [k |-> "scalar", s |-> <<v>>]

Array(s) == [k |-> "array", s |-> s]

NoExc == "none"

Returned(v) == [exc |-> NoExc, val |-> v, bands |-> <<>>]

Raised(e) == [exc |-> e, val |-> <<>>, bands |-> <<>>]

\* np.array(x, dtype=float).flatten(): a scalar becomes an array of size 1,
\* None becomes NaN, a non-numeric element raises ValueError
np_array_float(x) ==
    IF \E i \in 1..Len(x.s) : x.s[i] = Str
    THEN Raised("ValueError")
    ELSE Returned(Stored([i \in 1..Len(x.s) |-> IF x.s[i] = None THEN NaN ELSE x.s[i]]))

\* numpy broadcasting of two flat arrays: sizes must be equal or one of them 1
BroadcastOk(a, b) == Len(a) = Len(b) \/ Len(a) = 1 \/ Len(b) = 1

BroadcastLen(a, b) == IF Len(a) = 1 THEN Len(b) ELSE Len(a)

At(a, i) == IF Len(a) = 1 THEN a[1] ELSE a[i]

(***************************************************************************)
(* Capacity: configuration and derived properties                          *)
(***************************************************************************)
Bands == <<"L850", "L1800", "L2600">>

band_bw(self, b) ==
    IF b = "L850" THEN self.bw_L850
    ELSE IF b = "L1800" THEN self.bw_L1800 ELSE self.bw_L2600

bw(self) == self.bw_L850 + self.bw_L1800 + self.bw_L2600

nrb(self) == bw(self) * self.rb_num_multiplier

\* variant of avrbpdsch: the fraction, not scaled by 100
avrbpdsch_fraction(self) ==
    IF nrb(self) = 0 THEN Raised("ZeroDivisionError")
    ELSE Returned(<<FDiv(Num(100 - self.cco), Num(nrb(self)))>>)

\* ((100 - cco) / nrb) * 100 on Python scalars: nrb = 0 raises ZeroDivisionError
avrbpdsch(self) ==
    IF nrb(self) = 0 THEN Raised("ZeroDivisionError")
    ELSE Returned(<<FMul(FDiv(Num(100 - self.cco), Num(nrb(self))), Num(100))>>)

(***************************************************************************)
(* get_dl_bitrate                                                          *)
(***************************************************************************)
\* variant of MaskRow: the comparison reversed
MaskRowLe(distances_array, km) ==
    [j \in 1..Len(distances_array) |-> FLe(distances_array[j], km)]

\* mask = distances_array[newaxis, :] >= poi_distances[:, newaxis], one row
MaskRow(distances_array, km) ==
    [j \in 1..Len(distances_array) |-> FGe(distances_array[j], km)]

\* variant of Argmax: the last index holding True
ArgmaxLast(row) ==
    IF \E j \in 1..Len(row) : row[j]
    THEN CHOOSE j \in 1..Len(row) : row[j] /\ \A k \in (j + 1)..Len(row) : ~row[k]
    ELSE 1

\* mask.argmax(axis=1): the first index holding True, the first index of the
\* row when no entry is True (indices are 1-based here, 0-based in numpy)
Argmax(row) ==
    IF \E j \in 1..Len(row) : row[j]
    THEN CHOOSE j \in 1..Len(row) : row[j] /\ \A k \in 1..(j - 1) : ~row[k]
    ELSE 1

\* ~mask.any(axis=1)
NoLargerEqual(row) == ~(\E j \in 1..Len(row) : row[j])

\* the exception the lookup of one band raises for the batch, or NoExc
BandExc(self, b, kms) ==
    LET distances_array == self.bwdistance_km[b]
        bitrate_array == self.bwdlachievbr[b]
    IN  IF Len(distances_array) = 0 THEN "ValueError"
        ELSE IF \E i \in 1..Len(kms) :
                   Argmax(MaskRow(distances_array, kms[i])) > Len(bitrate_array)
             THEN "IndexError"
        ELSE NoExc

\* dl_bitrate = bitrate_array[indices]; dl_bitrate[no_larger_equal] = nan
BandBitrate(self, b, km) ==
    LET row == MaskRow(self.bwdistance_km[b], km)
    IN  IF NoLargerEqual(row) THEN NaN ELSE self.bwdlachievbr[b][Argmax(row)]

\* variant of WeightedSum: an undefined band counts as zero
WeightedSumSkipNan(self, r) ==
    LET term(i) == IF IsNaN(r[i]) THEN Num(0)
                   ELSE FMul(r[i], Rat(band_bw(self, Bands[i]), bw(self)))
    IN  FAdd(FAdd(term(1), term(2)), term(3))

\* np.dot(dl_bitrates, weights) for one row of dl_bitrates
WeightedSum(self, r) ==
    LET term(i) == FMul(r[i], Rat(band_bw(self, Bands[i]), bw(self)))
    IN  FAdd(FAdd(term(1), term(2)), term(3))

get_dl_bitrate(self, poi_distances) ==
    LET conv == np_array_float(poi_distances)
        \* metres to kilometres
        kms == Stored([i \in 1..Len(conv.val) |-> FDiv(conv.val[i], Num(1000))])
        excs == [i \in 1..3 |-> BandExc(self, Bands[i], kms)]
        dl_bitrates == Stored([i \in 1..Len(kms) |->
                          Stored([j \in 1..3 |-> BandBitrate(self, Bands[j], kms[i])])])
    IN  IF conv.exc # NoExc THEN conv
        ELSE IF bw(self) = 0 THEN Raised("ZeroDivisionError")
        ELSE IF \E i \in 1..3 : excs[i] # NoExc
             THEN Raised(excs[CHOOSE i \in 1..3 :
                                excs[i] # NoExc /\ \A k \in 1..(i - 1) : excs[k] = NoExc])
        ELSE [exc |-> NoExc,
              val |-> Stored([i \in 1..Len(kms) |-> WeightedSum(self, dl_bitrates[i])]),
              bands |-> dl_bitrates]

(***************************************************************************)
(* poiddatareq, brrbpopcd                                                  *)
(***************************************************************************)
NanArray(n) == Stored([i \in 1..n |-> NaN])

\* the try block of poiddatareq/brrbpopcd is left by an exception when the
\* bitrate lookup raises or avrbpdsch raises
TryFails(self, d) ==
    get_dl_bitrate(self, Array(d)).exc # NoExc \/ avrbpdsch(self).exc # NoExc

poiddatareq(self, d) ==
    LET conv == np_array_float(d)
        n == Len(conv.val)
        dl_bitrate == get_dl_bitrate(self, Array(conv.val)).val
        mask == [i \in 1..n |-> FLe(conv.val[i], Num(self.max_radius))]
    IN  IF conv.exc # NoExc THEN conv
        ELSE IF TryFails(self, conv.val) THEN Returned(NanArray(n))
        ELSE Returned(Stored([i \in 1..n |->
                 IF mask[i]
                 THEN FDiv(Num(self.dlthtarg * 1024), FDiv(dl_bitrate[i], avrbpdsch(self).val[1]))
                 ELSE PInf]))

brrbpopcd(self, popcd) ==
    LET conv == np_array_float(popcd)
        n == Len(conv.val)
        dl_bitrate == get_dl_bitrate(self, Array(conv.val)).val
    IN  IF conv.exc # NoExc THEN conv
        ELSE IF TryFails(self, conv.val) THEN Returned(NanArray(n))
        ELSE Returned(Stored([i \in 1..n |-> FDiv(dl_bitrate[i], avrbpdsch(self).val[1])]))

(***************************************************************************)
(* upoprbu, cellavcap, sufcapch                                            *)
(***************************************************************************)
\* size check of sufcapch: neither is a scalar and the sizes differ
SizeMismatchEither(a, b) == Len(a) # 1 /\ Len(b) # 1 /\ Len(a) # Len(b)

\* variant of SizeMismatchFirst: a scalar is accepted in the second position too
SizeMismatchNeitherScalar(a, b) == Len(a) # 1 /\ Len(b) # 1 /\ Len(a) # Len(b)

\* size check of upoprbu and cellavcap: the first is no scalar and the sizes differ
SizeMismatchFirst(a, b) == Len(a) # 1 /\ Len(a) # Len(b)

\* variant of upoprbu: the first array recycled to the length of the second
\* (np.resize) instead of the size check
upoprbu_resize(upopbr, brrbpopcd_) ==
    LET a == np_array_float(upopbr)
        b == np_array_float(brrbpopcd_)
    IN  IF a.exc # NoExc THEN a
        ELSE IF b.exc # NoExc THEN b
        ELSE IF Len(a.val) = 0 THEN Returned(<<>>)
        ELSE Returned(Stored([i \in 1..Len(b.val) |->
                 FDiv(a.val[((i - 1) % Len(a.val)) + 1], b.val[i])]))

upoprbu(upopbr, brrbpopcd_) ==
    LET a == np_array_float(upopbr)
        b == np_array_float(brrbpopcd_)
    IN  IF a.exc # NoExc THEN a
        ELSE IF b.exc # NoExc THEN b
        ELSE IF SizeMismatchFirst(a.val, b.val) THEN Raised("ValueError")
        ELSE IF ~BroadcastOk(a.val, b.val) THEN Raised("ValueError")
        ELSE Returned(Stored([i \in 1..BroadcastLen(a.val, b.val) |->
                 FDiv(At(a.val, i), At(b.val, i))]))

cellavcap(avrbpdsch_, upoprbu_) ==
    LET a == np_array_float(avrbpdsch_)
        b == np_array_float(upoprbu_)
    IN  IF a.exc # NoExc THEN a
        ELSE IF b.exc # NoExc THEN b
        ELSE IF SizeMismatchFirst(a.val, b.val) THEN Raised("ValueError")
        ELSE IF ~BroadcastOk(a.val, b.val) THEN Raised("ValueError")
        ELSE Returned(Stored([i \in 1..BroadcastLen(a.val, b.val) |->
                 FSub(At(a.val, i), At(b.val, i))]))

\* variant of sufcapch: a capacity equal to the requirement counts as sufficient
sufcapch_ge(cellavcap_, rbdlthtarg) ==
    LET a == np_array_float(cellavcap_)
        b == np_array_float(rbdlthtarg)
    IN  IF a.exc # NoExc THEN a
        ELSE IF b.exc # NoExc THEN b
        ELSE IF SizeMismatchEither(a.val, b.val) THEN Raised("ValueError")
        ELSE IF ~BroadcastOk(a.val, b.val) THEN Raised("ValueError")
        ELSE Returned(Stored([i \in 1..BroadcastLen(a.val, b.val) |->
                 FGe(At(a.val, i), At(b.val, i))]))

sufcapch(cellavcap_, rbdlthtarg) ==
    LET a == np_array_float(cellavcap_)
        b == np_array_float(rbdlthtarg)
    IN  IF a.exc # NoExc THEN a
        ELSE IF b.exc # NoExc THEN b
        ELSE IF SizeMismatchEither(a.val, b.val) THEN Raised("ValueError")
        ELSE IF ~BroadcastOk(a.val, b.val) THEN Raised("ValueError")
        ELSE Returned(Stored([i \in 1..BroadcastLen(a.val, b.val) |->
                 FGt(At(a.val, i), At(b.val, i))]))

(***************************************************************************)
(* avubrnonbh, upopbr, udatavmonth_pu                                      *)
(***************************************************************************)
\* self.bitsingbyte = 8589934592 = 2^33 = 65536 * 131072, kept as two factors
\* because the product is beyond 32-bit integers
bitsingbyte_hi == 65536

bitsingbyte_lo == 131072

\* arithmetic on Python floats: a division by zero raises ZeroDivisionError
avubrnonbh(self, udatavmonth) ==
    LET perday == FDiv(udatavmonth, self.days)
        perhour == FDiv(perday, Num(self.nbhours))
        nonbusy == FDiv(FMul(perhour, Num(self.nonbhu)), Num(100))
        persec == FDiv(FDiv(nonbusy, Num(self.minperhour)), Num(self.secpermin))
        bits == FMul(FMul(persec, Num(bitsingbyte_hi)), Num(bitsingbyte_lo))
    IN  IF \/ FSign(self.days) = 0 \/ self.nbhours = 0 \/ self.minperhour = 0
           \/ self.secpermin = 0 \/ self.bitsinkbit = 0
        THEN Raised("ZeroDivisionError")
        ELSE Returned(<<FDiv(bits, Num(self.bitsinkbit))>>)

\* avubrnonbh_ is a Python float; pop is a Python scalar or a Series: the
\* division by sectors_per_site = 0 raises on scalars and gives inf/nan on a Series
upopbr(self, avubrnonbh_, pop) ==
    IF pop.k = "scalar" /\ self.sectors_per_site = 0 THEN Raised("ZeroDivisionError")
    ELSE Returned(Stored([i \in 1..Len(pop.s) |->
             FDiv(FMul(FMul(FMul(avubrnonbh_, pop.s[i]), Rat(self.mbb_subscr, 100)),
                       Rat(self.oppopshare, 100)),
                  Num(self.sectors_per_site))]))

\* rows of the traffic table for the configured country
CountryRows(self) ==
    {i \in 1..Len(self.mbbt) : self.mbbt[i].entityIso = self.country_code}

\* .loc[...].item(): exactly one row is required, anything else raises ValueError
udatavmonth_pu(self) ==
    IF Cardinality(CountryRows(self)) # 1 THEN Raised("ValueError")
    ELSE Returned(<<self.mbbt[CHOOSE i \in CountryRows(self) : TRUE].traffic>>)

(***************************************************************************)
(* Tables (data frames) as sequences of rows                               *)
(***************************************************************************)
RECURSIVE PickFrom(_, _, _)
\* the rows whose index is in S, in table order, from index i on
PickFrom(rows, S, i) ==
    IF i > Len(rows) THEN <<>>
    ELSE (IF i \in S THEN <<rows[i]>> ELSE <<>>) \o PickFrom(rows, S, i + 1)

RECURSIVE Concat(_, _)
\* the concatenation of the sequences seqs[i], seqs[i+1], ...
Concat(seqs, i) == IF i > Len(seqs) THEN <<>> ELSE seqs[i] \o Concat(seqs, i + 1)

RECURSIVE SumOver(_, _)
\* pandas sum(skipna=True): NaN entries are skipped, an empty sum is 0
SumOver(vals, i) ==
    IF i > Len(vals) THEN Num(0)
    ELSE IF IsNaN(vals[i]) THEN SumOver(vals, i + 1)
    ELSE FAdd(vals[i], SumOver(vals, i + 1))

\* the undefined site identifier of a point with no site (NaN in the ict_id column)
NoSite == "nan"

\* drop_duplicates(subset='ict_id'), the first row of every identifier kept
DropDuplicateSites(rows) ==
    PickFrom(rows, {i \in 1..Len(rows) :
                       \A j \in 1..(i - 1) : rows[j].ict_id # rows[i].ict_id}, 1)

\* drop_duplicates(subset='poi_id', keep='first')
\* variant of DropDuplicatePois: the last row of a point is kept
DropDuplicatePoisKeepLast(rows) ==
    PickFrom(rows, {i \in 1..Len(rows) :
                       \A j \in (i + 1)..Len(rows) : rows[j].poi_id # rows[i].poi_id}, 1)

DropDuplicatePois(rows) ==
    PickFrom(rows, {i \in 1..Len(rows) :
                       \A j \in 1..(i - 1) : rows[j].poi_id # rows[i].poi_id}, 1)

(***************************************************************************)
(* Geometry: the plane is discretised into a line of cells of a fixed      *)
(* width; a polygon is the set of cells it covers, and a point is within   *)
(* a polygon when its cell belongs to it                                   *)
(***************************************************************************)
Cells == 0..(NCells - 1)

\* width of a cell in metres: the spacing of the coordinates of the sites,
\* points and population samples
CellWidth == 1000

\* distance in metres between two cells
CellDistance(self, c1, c2) == Abs(c1 - c2) * CellWidth

\* geometry.buffer(radius): the disk of that radius around a site
Buffer(self, c, radius) == {x \in Cells : CellDistance(self, c, x) < radius}

\* range(min_radius, max_radius + 1, radius_step) as a sequence: a step of
\* zero raises ValueError, a positive step counts up to max_radius and a
\* negative step counts down to the values above max_radius + 1
RadiiSeq(self) ==
    LET start == self.min_radius
        stop == self.max_radius + 1
        step == self.radius_step
        span == IF step > 0 THEN stop - start ELSE start - stop
        len == IF span <= 0 THEN 0 ELSE (span + Abs(step) - 1) \div Abs(step)
    IN  IF step = 0 THEN Raised("ValueError")
        ELSE Returned(Stored([k \in 1..len |-> start + (k - 1) * step]))

\* the radii the loop visits (none when range raises)
Radii(self) == {RadiiSeq(self).val[k] : k \in 1..Len(RadiiSeq(self).val)}

\* variant of Ring: the buffer itself, the previous buffer not taken away
RingNoDifference(self, c, radius) == Buffer(self, c, radius)

\* the ring of a radius: the first buffer, then buffer minus previous buffer
Ring(self, c, radius) ==
    IF radius = self.min_radius THEN Buffer(self, c, radius)
    ELSE Buffer(self, c, radius) \ Buffer(self, c, radius - self.radius_step)

\* create_voronoi_cells(cellsites_gdf, area): every cell of the area belongs to
\* the polygon of its nearest site, the first such site of the table on a tie
create_voronoi_cells(self, sites) ==
    Stored([i \in 1..Len(sites) |->
        [ict_id |-> sites[i].ict_id,
         cell |-> sites[i].cell,
         voronoi_polygons |->
            {x \in self.area :
                \A j \in 1..Len(sites) :
                    \/ CellDistance(self, sites[i].cell, x) < CellDistance(self, sites[j].cell, x)
                    \/ /\ CellDistance(self, sites[i].cell, x) = CellDistance(self, sites[j].cell, x)
                       /\ i <= j}]])

\* create_voronoi_cells when its polygons are not exclusive: every polygon is
\* closed, so a cell as near to several sites as to any other belongs to each
\* of them (sites at one location share one polygon)
create_voronoi_cells_closed(self, sites) ==
    Stored([i \in 1..Len(sites) |->
        [ict_id |-> sites[i].ict_id,
         cell |-> sites[i].cell,
         voronoi_polygons |->
            {x \in self.area :
                \A j \in 1..Len(sites) :
                    CellDistance(self, sites[i].cell, x) <= CellDistance(self, sites[j].cell, x)}]])

\* what create_voronoi_cells may return: the exclusive partition that is
\* asked of it, or polygons that share the cells on their boundary, which the
\* assignment of points has to tolerate
VoronoiOutcomes(self, sites) ==
    {create_voronoi_cells(self, sites), create_voronoi_cells_closed(self, sites)}

\* the clipped buffer and ring columns of every site, for every radius
WithBuffersAndRings(self, gdf) ==
    Stored([i \in 1..Len(gdf) |->
        [ict_id |-> gdf[i].ict_id,
         cell |-> gdf[i].cell,
         voronoi_polygons |-> gdf[i].voronoi_polygons,
         clring |-> [r \in Radii(self) |->
                        Ring(self, gdf[i].cell, r) \cap gdf[i].voronoi_polygons],
         clbuffer |-> [r \in Radii(self) |->
                        Buffer(self, gdf[i].cell, r) \cap gdf[i].voronoi_polygons]]])

\* buffers_gdf: the clipped buffer of max_radius of every site
BuffersGdf(self, gdf) ==
    Stored([i \in 1..Len(gdf) |->
        [ict_id |-> gdf[i].ict_id, geometry |-> gdf[i].clbuffer[self.max_radius]]])

\* rings_gdf: melt of the clring columns, one row per (radius, site), with the
\* representative radius buffer - radius_step / 2
RingsGdf(self, gdf) ==
    Concat([k \in 1..Len(RadiiSeq(self).val) |->
              [i \in 1..Len(gdf) |->
                 [ict_id |-> gdf[i].ict_id,
                  \* the digits of the column name: the sign of a radius is lost
                  buffer |-> Abs(RadiiSeq(self).val[k]),
                  geometry |-> gdf[i].clring[RadiiSeq(self).val[k]],
                  radius |-> FSub(Num(Abs(RadiiSeq(self).val[k])),
                                  Rat(self.radius_step, 2))]]], 1)

(***************************************************************************)
(* calculate_buffer_areas: the steps on the tables                         *)
(***************************************************************************)
\* gpd.sjoin(pois_gdf, buffers_gdf, how='left', predicate='within'): one row
\* per (point, buffer containing it), a row with no site for a point in none
SjoinPois(pois, buffers) ==
    Concat([p \in 1..Len(pois) |->
              LET hits == {b \in 1..Len(buffers) : pois[p].cell \in buffers[b].geometry}
              IN  IF hits = {}
                  THEN <<[poi_id |-> pois[p].poi_id, cell |-> pois[p].cell, ict_id |-> NoSite]>>
                  ELSE PickFrom([b \in 1..Len(buffers) |->
                                    [poi_id |-> pois[p].poi_id, cell |-> pois[p].cell,
                                     ict_id |-> buffers[b].ict_id]], hits, 1)], 1)

\* variant of MergeVisibility: the pairs of every order are joined
MergeVisibilityAnyOrder(pois, visibility) ==
    Concat([p \in 1..Len(pois) |->
              LET hits == {v \in 1..Len(visibility) :
                              visibility[v].poi_id = pois[p].poi_id}
              IN  IF hits = {}
                  THEN <<[poi_id |-> pois[p].poi_id, cell |-> pois[p].cell, ict_id |-> NoSite,
                          ground_distance |-> NaN, is_visible |-> "nan"]>>
                  ELSE PickFrom([v \in 1..Len(visibility) |->
                                    [poi_id |-> pois[p].poi_id, cell |-> pois[p].cell,
                                     ict_id |-> visibility[v].ict_id,
                                     ground_distance |-> visibility[v].ground_distance,
                                     is_visible |-> visibility[v].is_visible]], hits, 1)], 1)

\* pois_gdf.merge(visibility_filtered, on="poi_id", how="left") with
\* visibility_filtered the pairs of order 1
MergeVisibility(pois, visibility) ==
    Concat([p \in 1..Len(pois) |->
              LET hits == {v \in 1..Len(visibility) :
                              /\ visibility[v].order = 1
                              /\ visibility[v].poi_id = pois[p].poi_id}
              IN  IF hits = {}
                  THEN <<[poi_id |-> pois[p].poi_id, cell |-> pois[p].cell, ict_id |-> NoSite,
                          ground_distance |-> NaN, is_visible |-> "nan"]>>
                  ELSE PickFrom([v \in 1..Len(visibility) |->
                                    [poi_id |-> pois[p].poi_id, cell |-> pois[p].cell,
                                     ict_id |-> visibility[v].ict_id,
                                     ground_distance |-> visibility[v].ground_distance,
                                     is_visible |-> visibility[v].is_visible]], hits, 1)], 1)

\* variant of get_visibility_status: the oracle is asked for every row
get_visibility_status_always(row, analysis) ==
    [out |-> analysis, calls |-> <<<<row.poi_id, row.ict_id>>>>]

\* _get_visibility_status(row) with analysis what perform_pair_analysis returns
\* when it is called: the returned pair, and the oracle calls made
get_visibility_status(row, analysis) ==
    IF row.ict_id = NoSite
    THEN [out |-> <<NaN, "nan">>, calls |-> <<>>]
    ELSE [out |-> analysis, calls |-> <<<<row.poi_id, row.ict_id>>>>]

\* the ground_distance and is_visible columns set from the per-row results
WithVisibility(rows, results) ==
    Stored([i \in 1..Len(rows) |->
        [poi_id |-> rows[i].poi_id, cell |-> rows[i].cell, ict_id |-> rows[i].ict_id,
         ground_distance |-> results[i][1], is_visible |-> results[i][2]]])

\* pois_within_cellsites["rbdlthtarg"] = self.poiddatareq(ground_distance)
PoiLevel(self, rows) ==
    LET rb == poiddatareq(self, Array([i \in 1..Len(rows) |-> rows[i].ground_distance])).val
    IN  Stored([i \in 1..Len(rows) |->
            [poi_id |-> rows[i].poi_id, cell |-> rows[i].cell, ict_id |-> rows[i].ict_id,
             ground_distance |-> rows[i].ground_distance, is_visible |-> rows[i].is_visible,
             rbdlthtarg |-> rb[i]]])

\* sjoin(population, rings, inner, within), groupby sum, left merge, fillna(0)
\* for ring row i: the joined rows pair every sample with every ring row that
\* contains it, their populations are summed per key (ict_id, buffer), and the
\* ring row receives the sum of its key, or 0 when its key has no joined row
RingPopulation(population, rings, i) ==
    LET same == {j \in 1..Len(rings) :
                    /\ rings[j].ict_id = rings[i].ict_id
                    /\ rings[j].buffer = rings[i].buffer}
        joined == Concat([j \in 1..Len(rings) |->
                     IF j \in same
                     THEN PickFrom([k \in 1..Len(population) |->
                                       Num(population[k].population)],
                                   {k \in 1..Len(population) :
                                       population[k].cell \in rings[j].geometry}, 1)
                     ELSE <<>>], 1)
    IN  IF Len(joined) = 0 THEN Num(0) ELSE SumOver(joined, 1)

\* the ring-level columns brrbpopcd, population, upopbr and upoprbu
RingLevel(self, rings) ==
    LET brr == Stored([i \in 1..Len(rings) |-> brrbpopcd(self, Scalar(rings[i].radius)).val[1]])
        pop == Stored([i \in 1..Len(rings) |-> RingPopulation(self.population_data, rings, i)])
        avu == avubrnonbh(self, udatavmonth_pu(self).val[1]).val[1]
        upb == upopbr(self, avu, Array(pop)).val
        rbu == upoprbu(Array(upb), Array(brr)).val
    IN  Stored([i \in 1..Len(rings) |->
            [ict_id |-> rings[i].ict_id, buffer |-> rings[i].buffer,
             geometry |-> rings[i].geometry, radius |-> rings[i].radius,
             brrbpopcd |-> brr[i], population |-> pop[i], upopbr |-> upb[i],
             upoprbu |-> rbu[i]]])

\* the site identifiers of the model in sorted order (groupby sorts its keys);
\* the undefined identifier is no group key
SortedSiteIds == <<"s1", "s2", "s3">>

\* the group keys of groupby('ict_id'): the identifiers that occur, sorted
GroupKeys(rings) ==
    Concat([g \in 1..Len(SortedSiteIds) |->
              IF \E k \in 1..Len(rings) : rings[k].ict_id = SortedSiteIds[g]
              THEN <<SortedSiteIds[g]>> ELSE <<>>], 1)

\* groupby('ict_id')["upoprbu"].sum(), one row per group key, and the
\* cellavcap of every site
SiteLevel(self, rings) ==
    LET keys == GroupKeys(rings)
        total(id) == SumOver(PickFrom([k \in 1..Len(rings) |-> rings[k].upoprbu],
                                      {k \in 1..Len(rings) : rings[k].ict_id = id}, 1), 1)
    IN  Stored([g \in 1..Len(keys) |->
                  [ict_id |-> keys[g],
                   upoprbu |-> total(keys[g]),
                   cellavcap |-> cellavcap(Scalar(avrbpdsch(self).val[1]),
                                           Scalar(total(keys[g]))).val[1]]])

\* variant of FillNa0: the missing value is kept
NoFill(v) == v

\* variant of FillNa0: a negative capacity is replaced by zero as well
ClampAtZero(v) == IF IsNaN(v) \/ (IsNum(v) /\ v.n < 0) THEN Num(0) ELSE v

\* cellavcap.fillna(0)
FillNa0(v) == IF IsNaN(v) THEN Num(0) ELSE v

\* merge(cellsites_rbu, on='ict_id', how='left'), cellavcap.fillna(0), sufcapch
MergePoiSite(rows, rbu) ==
    LET hit(i) == {k \in 1..Len(rbu) : rbu[k].ict_id = rows[i].ict_id}
        col(i) == IF hit(i) = {}
                  THEN [upoprbu |-> NaN, cellavcap |-> NaN]
                  ELSE rbu[CHOOSE k \in hit(i) : TRUE]
        cap == Stored([i \in 1..Len(rows) |-> FillNa0(col(i).cellavcap)])
        suf == sufcapch(Array(cap), Array([i \in 1..Len(rows) |-> rows[i].rbdlthtarg])).val
    IN  Stored([i \in 1..Len(rows) |->
            [poi_id |-> rows[i].poi_id, cell |-> rows[i].cell, ict_id |-> rows[i].ict_id,
             ground_distance |-> rows[i].ground_distance, is_visible |-> rows[i].is_visible,
             rbdlthtarg |-> rows[i].rbdlthtarg, upoprbu |-> col(i).upoprbu,
             cellavcap |-> cap[i], sufcapch |-> suf[i]]])

(***************************************************************************)
(* Inputs of the model                                                     *)
(***************************************************************************)
\* distance breakpoints (km) and achievable bitrates (kbps) per band
ScenarioKm ==
    [L850 |-> <<Num(2), Num(5), Num(10)>>,
     L1800 |-> <<Num(1), Num(3), Num(6)>>,
     L2600 |-> <<Rat(1, 2), Num(1), Num(2)>>]

ScenarioKbps ==
    [L850 |-> <<Num(20000), Num(10000), Num(5000)>>,
     L1800 |-> <<Num(15000), Num(8000), Num(3000)>>,
     L2600 |-> <<Num(10000), Num(5000), Num(1000)>>]

Tables ==
    { \* the tables of the documented scenario
      [name |-> "scenario", km |-> ScenarioKm, kbps |-> ScenarioKbps],
      \* a band whose bitrate grows with the distance
      [name |-> "rising", km |-> ScenarioKm,
       kbps |-> [ScenarioKbps EXCEPT !.L850 = <<Num(5000), Num(10000), Num(20000)>>]],
      \* a shorter band, padded with NaN by the CSV reader
      [name |-> "padded",
       km |-> [ScenarioKm EXCEPT !.L2600 = <<Rat(1, 2), Num(1), NaN>>],
       kbps |-> [ScenarioKbps EXCEPT !.L2600 = <<Num(10000), Num(5000), NaN>>]],
      \* files with a header and no rows: every column is empty
      [name |-> "empty",
       km |-> [L850 |-> <<>>, L1800 |-> <<>>, L2600 |-> <<>>],
       kbps |-> [L850 |-> <<>>, L1800 |-> <<>>, L2600 |-> <<>>]],
      \* a bitrate file with fewer rows than the distance file
      [name |-> "short", km |-> ScenarioKm,
       kbps |-> [L850 |-> <<Num(20000)>>, L1800 |-> <<Num(15000)>>,
                 L2600 |-> <<Num(10000)>>]],
      \* bitrates for which the required resource blocks at 1500 m are exactly
      \* the resource blocks of an idle site (dlthtarg * 1024 kbps on every band)
      [name |-> "threshold", km |-> ScenarioKm,
       kbps |-> [L850 |-> <<Num(5120), Num(5120), Num(5120)>>,
                 L1800 |-> <<Num(10240), Num(5120), Num(5120)>>,
                 L2600 |-> <<Num(10240), Num(5120), Num(5120)>>]] }

\* the attributes set by __init__, with the documented scenario's parameters
BaseConfig ==
    [country_code |-> "AAA",
     bw_L850 |-> 10, bw_L1800 |-> 10, bw_L2600 |-> 10,
     cco |-> 10, sectors_per_site |-> 3, dlthtarg |-> 5,
     mbb_subscr |-> 50, oppopshare |-> 50, nonbhu |-> 50, nbhours |-> 10,
     rb_num_multiplier |-> 5,
     max_radius |-> 2000, min_radius |-> 1000, radius_step |-> 1000,
     days |-> Rat(152, 5), minperhour |-> 60, secpermin |-> 60, bitsinkbit |-> 1000,
     tables |-> "scenario", bwdistance_km |-> ScenarioKm, bwdlachievbr |-> ScenarioKbps,
     mbbt |-> <<[entityIso |-> "AAA", traffic |-> Rat(171, 8)]>>,
     poi |-> <<>>, cellsites |-> <<>>, population_data |-> <<>>,
     visibility |-> [given |-> FALSE, data |-> <<>>],
     \* the Visibility object is set up only when no visibility table is supplied
     visibility_analyzer |-> TRUE,
     area |-> Cells]

RadioConfigs ==
    {[BaseConfig EXCEPT !.tables = t.name, !.bwdistance_km = t.km, !.bwdlachievbr = t.kbps,
                        !.max_radius = m, !.rb_num_multiplier = r,
                        !.bw_L850 = w[1], !.bw_L1800 = w[2], !.bw_L2600 = w[3]] :
        t \in Tables, m \in {2000, 8000}, r \in {5, 0},
        w \in {<<10, 10, 10>>, <<20, 10, 0>>}}

\* elements of a batch of distances (metres)
DistElems == {Num(500), Num(1500), Num(2500), Num(7000), Num(20000), NaN, None, Str}

Batches == UNION {[1..n -> DistElems] : n \in 0..MaxBatch}

\* arguments of upoprbu, cellavcap and sufcapch: scalars and arrays
ArgElems == {Num(0), Num(3), Num(60)}

Args ==
    {Scalar(v) : v \in ArgElems}
    \cup {Array(a) : a \in UNION {[1..n -> ArgElems] : n \in 0..MaxBatch}}

(***************************************************************************)
(* State                                                                   *)
(***************************************************************************)
VARIABLES
    self,                   \* the Capacity object: configuration and data
    pc,                     \* position of the caller / of calculate_buffer_areas
    call,                   \* the method call in progress or last returned
    ret,                    \* what the last call returned or raised
    aborted,                \* how the last call that raised did: "none", "size", "other"
    cellsites_gdf,          \* sites with Voronoi polygon, clipped buffers and rings
    buffers_gdf,            \* clipped buffer of max_radius per site
    rings_gdf,              \* one row per (site, radius)
    pois_within_cellsites,  \* the point table
    vis_results,            \* results of _get_visibility_status, row by row
    oracle_calls,           \* calls of perform_pair_analysis, in order
    cellsites_rbu           \* per-site utilisation and available capacity

vars == <<self, pc, call, ret, aborted, cellsites_gdf, buffers_gdf, rings_gdf,
          pois_within_cellsites, vis_results, oracle_calls, cellsites_rbu>>

pipevars == <<cellsites_gdf, buffers_gdf, rings_gdf, pois_within_cellsites,
              vis_results, oracle_calls, cellsites_rbu>>

NoCall == [op |-> "none", a |-> Array(<<>>), b |-> Array(<<>>)]

NoRet == [exc |-> NoExc, val |-> <<>>, bands |-> <<>>]

InitLocals ==
    /\ call = NoCall
    /\ ret = NoRet
    /\ aborted = "none"
    /\ cellsites_gdf = <<>>
    /\ buffers_gdf = <<>>
    /\ rings_gdf = <<>>
    /\ pois_within_cellsites = <<>>
    /\ vis_results = <<>>
    /\ oracle_calls = <<>>
    /\ cellsites_rbu = <<>>

(***************************************************************************)
(* Calls of the radio capacity methods on a constructed object             *)
(***************************************************************************)
InitRadio ==
    /\ self \in RadioConfigs
    /\ pc = "idle"
    /\ InitLocals

Invoke(op, a, b, result) ==
    /\ pc = "idle"
    /\ call' = [op |-> op, a |-> a, b |-> b]
    /\ ret' = result
    /\ aborted' = IF result.exc = NoExc THEN aborted
                  ELSE IF /\ op \in {"upoprbu", "cellavcap", "sufcapch"}
                          /\ Len(a.s) # 1 /\ Len(b.s) # 1 /\ Len(a.s) # Len(b.s)
                       THEN "size"
                  ELSE "other"
    /\ pc' = "returned"
    /\ UNCHANGED <<self, pipevars>>

Call_get_dl_bitrate ==
    \E d \in Batches : Invoke("get_dl_bitrate", Array(d), Array(<<>>), get_dl_bitrate(self, Array(d)))

Call_poiddatareq ==
    \E d \in Batches : Invoke("poiddatareq", Array(d), Array(<<>>), poiddatareq(self, Array(d)))

Call_brrbpopcd ==
    \E d \in Batches : Invoke("brrbpopcd", Array(d), Array(<<>>), brrbpopcd(self, Array(d)))

Call_upoprbu == \E a \in Args, b \in Args : Invoke("upoprbu", a, b, upoprbu(a, b))

Call_cellavcap == \E a \in Args, b \in Args : Invoke("cellavcap", a, b, cellavcap(a, b))

Call_sufcapch == \E a \in Args, b \in Args : Invoke("sufcapch", a, b, sufcapch(a, b))

\* the caller takes the result (or handles the exception) and goes on
Return ==
    /\ pc = "returned"
    /\ pc' = "idle"
    /\ call' = NoCall
    /\ ret' = NoRet
    /\ UNCHANGED <<self, aborted, pipevars>>

NextRadio == Call_get_dl_bitrate \/ Call_poiddatareq \/ Call_brrbpopcd \/ Return

SpecRadio == InitRadio /\ [][NextRadio]_vars

InitBroadcast ==
    /\ self \in {c \in RadioConfigs : c.tables = "scenario"}
    /\ pc = "idle"
    /\ InitLocals

NextBroadcast == Call_upoprbu \/ Call_cellavcap \/ Call_sufcapch \/ Return

SpecBroadcast == InitBroadcast /\ [][NextBroadcast]_vars

(***************************************************************************)
(* calculate_buffer_areas on a constructed object                          *)
(***************************************************************************)
LastCell == NCells - 1

\* cell site collections: one site, two sites, two sites at one location,
\* a duplicated site identifier, and identifiers not in sorted order
SiteTables ==
    {<<[ict_id |-> "s1", cell |-> c]>> : c \in Cells}
    \cup {<<[ict_id |-> "s1", cell |-> x[1]], [ict_id |-> "s2", cell |-> x[2]]>> :
             x \in {y \in Cells \X Cells : y[1] < y[2]}}
    \cup {<<[ict_id |-> "s1", cell |-> 0], [ict_id |-> "s2", cell |-> 0]>>,
          <<[ict_id |-> "s1", cell |-> 0], [ict_id |-> "s1", cell |-> LastCell]>>,
          <<[ict_id |-> "s2", cell |-> 0], [ict_id |-> "s1", cell |-> LastCell]>>}

\* point of interest collections: one or two points
PoiTables ==
    {<<[poi_id |-> 1, cell |-> c]>> : c \in Cells}
    \cup {<<[poi_id |-> 1, cell |-> x[1]], [poi_id |-> 2, cell |-> x[2]]>> :
             x \in {y \in Cells \X Cells : y[1] <= y[2]}}

\* population samples
PopulationTables ==
    {<<>>,
     <<[population |-> 625, cell |-> 0], [population |-> 3125, cell |-> 1]>>,
     <<[population |-> 625, cell |-> 1], [population |-> 625, cell |-> 1],
       [population |-> 3125, cell |-> LastCell]>>}

\* the visibility argument: None, or a table of pairs; a pair may name a site
\* that is not in the site table, or no site at all
VisibilityTables ==
    {[given |-> FALSE, data |-> <<>>],
     [given |-> TRUE,
      data |-> <<[poi_id |-> 1, ict_id |-> "s1", order |-> 1,
                  ground_distance |-> Num(500), is_visible |-> "True"],
                 [poi_id |-> 1, ict_id |-> "s2", order |-> 2,
                  ground_distance |-> Num(2500), is_visible |-> "False"]>>],
     [given |-> TRUE,
      data |-> <<[poi_id |-> 1, ict_id |-> "s1", order |-> 1,
                  ground_distance |-> Num(1500), is_visible |-> "True"],
                 [poi_id |-> 2, ict_id |-> "s3", order |-> 1,
                  ground_distance |-> Num(2500), is_visible |-> "False"],
                 [poi_id |-> 2, ict_id |-> "s1", order |-> 1,
                  ground_distance |-> Num(500), is_visible |-> "True"]>>],
     [given |-> TRUE,
      data |-> <<[poi_id |-> 1, ict_id |-> NoSite, order |-> 1,
                  ground_distance |-> Num(500), is_visible |-> "True"],
                 [poi_id |-> 2, ict_id |-> "s2", order |-> 1,
                  ground_distance |-> Num(1500), is_visible |-> "False"]>>]}

\* objects whose reference traffic table has a row for the configured country:
\* the scenario tables with every site collection, the padded tables with
\* the collections of one site
ConfigsWithTraffic ==
    {c \in {[c EXCEPT !.cellsites = s, !.poi = p, !.population_data = q,
                      !.visibility = v, !.visibility_analyzer = ~v.given] :
               c \in {c \in RadioConfigs :
                         /\ c.tables \in {"scenario", "padded"}
                         /\ c.max_radius = 2000
                         /\ c.rb_num_multiplier = 5
                         /\ c.bw_L2600 = 10},
               s \in SiteTables, p \in PoiTables, q \in PopulationTables,
               v \in VisibilityTables} :
        c.tables = "scenario" \/ Len(c.cellsites) = 1}

\* objects whose max_radius is a radius the range does not reach
ConfigsOffRange ==
    {[c EXCEPT !.max_radius = 2500] :
        c \in {c \in ConfigsWithTraffic :
                  /\ c.tables = "scenario"
                  /\ c.population_data = <<>>}}

\* the traffic table read by __init__ has rows of other countries only; the
\* constructor does not look for the row of country_code
ConfigsWithoutTraffic ==
    {[c EXCEPT !.mbbt = <<[entityIso |-> "BBB", traffic |-> Rat(171, 8)]>>] :
        c \in {c \in ConfigsWithTraffic :
                  /\ c.tables = "scenario"
                  /\ c.population_data = <<>>}}

\* objects constructed with no resource block (rb_num_multiplier = 0) or no
\* non-busy hour (nbhours = 0); the constructor accepts both
ConfigsDividingByZero ==
    {[c EXCEPT !.rb_num_multiplier = x[1], !.nbhours = x[2]] :
        x \in {<<0, 10>>, <<5, 0>>},
        c \in {c \in ConfigsWithTraffic :
                  /\ c.tables = "scenario"
                  /\ c.population_data # <<>>
                  /\ ~c.visibility.given}}

\* objects whose radius range does not count up: a step of zero, and a
\* negative step from the larger radius down; the constructor accepts both
ConfigsNotCountingUp ==
    {[c EXCEPT !.min_radius = x[1], !.max_radius = x[2], !.radius_step = x[3]] :
        x \in {<<1000, 2000, 0>>, <<2000, 1000, 0 - 1000>>},
        c \in {c \in ConfigsWithTraffic :
                  /\ c.tables = "scenario"
                  /\ c.population_data = <<>>
                  /\ Len(c.poi) = 1
                  /\ ~c.visibility.given}}

\* objects whose radius range holds a radius and its opposite: the two rings
\* of a site get column names with the same digits
ConfigsWithSignedRadii ==
    {[c EXCEPT !.min_radius = 0 - 1000, !.max_radius = 1000, !.radius_step = 2000] :
        c \in {c \in ConfigsWithTraffic :
                  /\ c.tables = "scenario"
                  /\ c.population_data # <<>>
                  /\ Len(c.poi) = 1
                  /\ ~c.visibility.given}}

\* objects with the bitrate tables for which an idle site has exactly the
\* resource blocks a point at 1500 m requires
ConfigsAtThreshold ==
    {[c EXCEPT !.cellsites = s, !.poi = p, !.visibility = v,
               !.visibility_analyzer = ~v.given] :
        c \in {c \in RadioConfigs :
                  /\ c.tables = "threshold"
                  /\ c.max_radius = 2000
                  /\ c.rb_num_multiplier = 5
                  /\ c.bw_L2600 = 10},
        s \in {t \in SiteTables : Len(t) = 1}, p \in PoiTables, v \in VisibilityTables}

PipelineConfigs ==
    ConfigsWithTraffic \cup ConfigsOffRange \cup ConfigsWithoutTraffic
        \cup ConfigsDividingByZero \cup ConfigsNotCountingUp
        \cup ConfigsWithSignedRadii \cup ConfigsAtThreshold

\* what perform_pair_analysis may return: (ground distance in metres, is visible)
OracleResults == {<<Num(1500), "True">>, <<Num(2500), "False">>}

InitPipeline ==
    /\ self \in PipelineConfigs
    /\ pc = "start"
    /\ InitLocals

\* lines 606-661: copies, de-duplicated sites, Voronoi cells, buffers and rings;
\* range raises ValueError for a step of zero (line 632), and the buffer of
\* max_radius is a missing column when the loop did not visit it (line 653)
Prepare ==
    /\ pc = "start"
    /\ \E cells \in VoronoiOutcomes(self, DropDuplicateSites(self.cellsites)) :
       LET gdf == WithBuffersAndRings(self, cells)
       IN  IF RadiiSeq(self).exc # NoExc
           THEN /\ pc' = "raised"
                /\ ret' = RadiiSeq(self)
                /\ UNCHANGED <<cellsites_gdf, buffers_gdf, rings_gdf>>
           ELSE IF self.max_radius \notin Radii(self)
           THEN /\ pc' = "raised"
                /\ ret' = Raised("KeyError")
                /\ UNCHANGED <<cellsites_gdf, buffers_gdf, rings_gdf>>
           ELSE /\ pc' = IF self.visibility.given THEN "precomputed" ELSE "sjoin"
                /\ cellsites_gdf' = gdf
                /\ buffers_gdf' = BuffersGdf(self, gdf)
                /\ rings_gdf' = RingsGdf(self, gdf)
                /\ ret' = ret
    /\ UNCHANGED <<self, call, aborted, pois_within_cellsites, vis_results,
                   oracle_calls, cellsites_rbu>>

\* lines 668-670: points matched to the buffer containing them, first match kept
Sjoin ==
    /\ pc = "sjoin"
    /\ pois_within_cellsites' = DropDuplicatePois(SjoinPois(self.poi, buffers_gdf))
    /\ pc' = "visibility"
    /\ UNCHANGED <<self, call, ret, aborted, cellsites_gdf, buffers_gdf, rings_gdf,
                   vis_results, oracle_calls, cellsites_rbu>>

\* lines 596-601: _get_visibility_status on the next row of the apply
VisibilityRow ==
    /\ pc = "visibility"
    /\ Len(vis_results) < Len(pois_within_cellsites)
    /\ \E analysis \in OracleResults :
          LET status == get_visibility_status(
                            pois_within_cellsites[Len(vis_results) + 1], analysis)
          IN  /\ vis_results' = Append(vis_results, status.out)
              /\ oracle_calls' = oracle_calls \o status.calls
    /\ UNCHANGED <<self, pc, call, ret, aborted, cellsites_gdf, buffers_gdf, rings_gdf,
                   pois_within_cellsites, cellsites_rbu>>

\* line 672: the two columns assigned once every row has been visited
VisibilityAssign ==
    /\ pc = "visibility"
    /\ Len(vis_results) = Len(pois_within_cellsites)
    /\ pois_within_cellsites' = WithVisibility(pois_within_cellsites, vis_results)
    /\ pc' = "poi_level"
    /\ UNCHANGED <<self, call, ret, aborted, cellsites_gdf, buffers_gdf, rings_gdf,
                   vis_results, oracle_calls, cellsites_rbu>>

\* lines 676-677: the supplied pairs of order 1 joined to the points
Precomputed ==
    /\ pc = "precomputed"
    /\ pois_within_cellsites' = MergeVisibility(self.poi, self.visibility.data)
    /\ pc' = "poi_level"
    /\ UNCHANGED <<self, call, ret, aborted, cellsites_gdf, buffers_gdf, rings_gdf,
                   vis_results, oracle_calls, cellsites_rbu>>

\* line 682
PoiLevelStep ==
    /\ pc = "poi_level"
    /\ pois_within_cellsites' = PoiLevel(self, pois_within_cellsites)
    /\ pc' = "ring_level"
    /\ UNCHANGED <<self, call, ret, aborted, cellsites_gdf, buffers_gdf, rings_gdf,
                   vis_results, oracle_calls, cellsites_rbu>>

\* lines 686-696; udatavmonth_pu raises when the country has no traffic row,
\* avubrnonbh when it divides by zero
RingLevelStep ==
    /\ pc = "ring_level"
    /\ IF udatavmonth_pu(self).exc # NoExc
       THEN /\ pc' = "raised"
            /\ ret' = udatavmonth_pu(self)
            /\ UNCHANGED rings_gdf
       ELSE IF avubrnonbh(self, udatavmonth_pu(self).val[1]).exc # NoExc
       THEN /\ pc' = "raised"
            /\ ret' = avubrnonbh(self, udatavmonth_pu(self).val[1])
            /\ UNCHANGED rings_gdf
       ELSE /\ pc' = "site_level"
            /\ rings_gdf' = RingLevel(self, rings_gdf)
            /\ ret' = ret
    /\ UNCHANGED <<self, call, aborted, cellsites_gdf, buffers_gdf,
                   pois_within_cellsites, vis_results, oracle_calls, cellsites_rbu>>

\* lines 701-702; the lambda applied to every site row reads avrbpdsch, which
\* raises when there is no resource block
SiteLevelStep ==
    /\ pc = "site_level"
    /\ IF GroupKeys(rings_gdf) # <<>> /\ avrbpdsch(self).exc # NoExc
       THEN /\ pc' = "raised"
            /\ ret' = avrbpdsch(self)
            /\ UNCHANGED cellsites_rbu
       ELSE /\ pc' = "merge"
            /\ cellsites_rbu' = SiteLevel(self, rings_gdf)
            /\ ret' = ret
    /\ UNCHANGED <<self, call, aborted, cellsites_gdf, buffers_gdf, rings_gdf,
                   pois_within_cellsites, vis_results, oracle_calls>>

\* lines 706-724: the point table merged with the sites and returned
MergeStep ==
    /\ pc = "merge"
    /\ pois_within_cellsites' = MergePoiSite(pois_within_cellsites, cellsites_rbu)
    /\ pc' = "done"
    /\ UNCHANGED <<self, call, ret, aborted, cellsites_gdf, buffers_gdf, rings_gdf,
                   vis_results, oracle_calls, cellsites_rbu>>

NextPipeline ==
    \/ Prepare
    \/ Sjoin
    \/ VisibilityRow
    \/ VisibilityAssign
    \/ Precomputed
    \/ PoiLevelStep
    \/ RingLevelStep
    \/ SiteLevelStep
    \/ MergeStep

SpecPipeline == InitPipeline /\ [][NextPipeline]_vars

\* every behaviour of the model: method calls, or one run of the pipeline
Init == InitRadio \/ InitPipeline

Next == NextRadio \/ NextBroadcast \/ NextPipeline

Spec == Init /\ [][Next]_vars

(***************************************************************************)
(* Properties of the radio capacity methods                                *)
(***************************************************************************)
ReturnedFrom(op) == pc = "returned" /\ call.op = op

\* the batch of the call with element k removed
Without(d, k) == SubSeq(d, 1, k - 1) \o SubSeq(d, k + 1, Len(d))

\* C1: poiddatareq returns +infinity for every element d > max_radius of the
\* batch, for every content of the band tables (tables whose lookup fails
\* included) and whatever the other elements of the batch are.
C1_InfBeyondMaxRadius ==
    ReturnedFrom("poiddatareq") =>
        \A i \in 1..Len(call.a.s) :
            (IsNum(call.a.s[i]) /\ FGt(call.a.s[i], Num(self.max_radius))) =>
                /\ ret.exc = NoExc
                /\ Len(ret.val) = Len(call.a.s)
                /\ ret.val[i] = PInf

\* C2: for each band and each queried distance, the per-band bitrate computed
\* in get_dl_bitrate is the bitrate at the index of the first breakpoint (km)
\* that is >= the distance (metres / 1000); when no breakpoint is >= the
\* distance the per-band result is NaN.
C2_FirstBreakpoint ==
    (ReturnedFrom("get_dl_bitrate") /\ ret.exc = NoExc) =>
        \A i \in 1..Len(call.a.s) : \A b \in 1..3 :
            LET km == self.bwdistance_km[Bands[b]]
                kbps == self.bwdlachievbr[Bands[b]]
                d == IF call.a.s[i] = None THEN NaN ELSE call.a.s[i]
                \* breakpoint j reaches the distance: km[j] * 1000 >= d
                reaches(j) == FGe(FMul(km[j], Num(1000)), d)
            IN  /\ Len(ret.bands) = Len(call.a.s)
                /\ \A j \in 1..Len(km) :
                       (reaches(j) /\ \A k \in 1..(j - 1) : ~reaches(k))
                           => ret.bands[i][b] = kbps[j]
                /\ (\A j \in 1..Len(km) : ~reaches(j)) => ret.bands[i][b] = NaN

C2_Witness ==
    /\ ReturnedFrom("get_dl_bitrate")
    /\ ret.exc = NoExc
    /\ self.tables = "scenario"
    /\ call.a.s = <<Num(1500), Num(2500)>>
    /\ ret.bands[1][2] = Num(8000)
    /\ ret.bands[2][3] = NaN

\* C3: get_dl_bitrate returns, per distance, the sum over the three bands of
\* (band bandwidth / total bandwidth) x per-band bitrate; a distance with an
\* undefined band has an undefined result, and the result of a distance does
\* not depend on the other distances of the batch.
C3_WeightedSum ==
    (ReturnedFrom("get_dl_bitrate") /\ ret.exc = NoExc) =>
        \A i \in 1..Len(call.a.s) :
            LET r == ret.bands[i]
                total == FAdd(FAdd(FMul(Num(self.bw_L850), r[1]),
                                   FMul(Num(self.bw_L1800), r[2])),
                              FMul(Num(self.bw_L2600), r[3]))
            IN  /\ Len(ret.val) = Len(call.a.s)
                /\ (\E b \in 1..3 : IsNaN(r[b])) => IsNaN(ret.val[i])
                /\ (\A b \in 1..3 : ~IsNaN(r[b])) => ret.val[i] = FDiv(total, Num(bw(self)))
                /\ ret.val[i] = get_dl_bitrate(self, Array(<<call.a.s[i]>>)).val[1]

C3_Witness ==
    /\ ReturnedFrom("get_dl_bitrate")
    /\ ret.exc = NoExc
    /\ Len(ret.val) = 2
    /\ IsNaN(ret.bands[1][3]) /\ IsNum(ret.bands[1][1]) /\ IsNum(ret.bands[1][2])
    /\ IsNaN(ret.val[1])
    /\ IsNum(ret.val[2])

\* the configuration of the documented scenario
IsScenario ==
    /\ self.tables = "scenario"
    /\ self.bw_L850 = 10 /\ self.bw_L1800 = 10 /\ self.bw_L2600 = 10
    /\ self.cco = 10 /\ self.rb_num_multiplier = 5 /\ self.dlthtarg = 5
    /\ self.max_radius >= 1500

\* C4 as stated: in the scenario a distance of 1500 m gives per-band bitrates
\* 20000, 15000 and 10000, a weighted bitrate of 15000 kbps, nrb = 150,
\* avrbpdsch = 60 and poiddatareq(1500) = 20.48 = 512/25 RB.
C4_ScenarioAsStated ==
    (IsScenario /\ pc = "returned" /\ call.a.s = <<Num(1500)>>) =>
        /\ nrb(self) = 150
        /\ avrbpdsch(self) = Returned(<<Num(60)>>)
        /\ call.op = "get_dl_bitrate" =>
               /\ ret.bands = <<<<Num(20000), Num(15000), Num(10000)>>>>
               /\ ret.val = <<Num(15000)>>
        /\ call.op = "poiddatareq" => ret.val = <<Rat(512, 25)>>

\* C4 amended: in the scenario a distance of 1500 m gives per-band bitrates
\* 20000, 8000 and 1000, a weighted bitrate of 29000/3 kbps, nrb = 150,
\* avrbpdsch = 60 and poiddatareq(1500) = 4608/145 (about 31.78) RB.
C4_Scenario ==
    (IsScenario /\ pc = "returned" /\ call.a.s = <<Num(1500)>>) =>
        /\ nrb(self) = 150
        /\ avrbpdsch(self) = Returned(<<Num(60)>>)
        /\ call.op = "get_dl_bitrate" =>
               /\ ret.bands = <<<<Num(20000), Num(8000), Num(1000)>>>>
               /\ ret.val = <<Rat(29000, 3)>>
        /\ call.op = "poiddatareq" => ret.val = <<Rat(4608, 145)>>

C4_Witness ==
    /\ IsScenario
    /\ ReturnedFrom("poiddatareq")
    /\ call.a.s = <<Num(1500)>>
    /\ ret.exc = NoExc

\* d1 <= d2 for two numeric elements of the batch
Ordered(i, j) ==
    /\ IsNum(call.a.s[i]) /\ IsNum(call.a.s[j])
    /\ FLe(call.a.s[i], call.a.s[j])

\* C5 as stated: for any two distances d1 <= d2 the per-band bitrate at d2 is
\* not greater than at d1, and so is the weighted bitrate of get_dl_bitrate.
C5_MonotoneAsStated ==
    (ReturnedFrom("get_dl_bitrate") /\ ret.exc = NoExc) =>
        \A i, j \in 1..Len(call.a.s) :
            Ordered(i, j) =>
                /\ \A b \in 1..3 : ~FGt(ret.bands[j][b], ret.bands[i][b])
                /\ ~FGt(ret.val[j], ret.val[i])

\* every band's bitrate column does not increase along its breakpoint table
NonIncreasingKbps ==
    \A b \in 1..3 :
        LET km == self.bwdistance_km[Bands[b]]
            kbps == self.bwdlachievbr[Bands[b]]
        IN  /\ Len(km) = Len(kbps)
            /\ \A i, j \in 1..Len(km) :
                   (i < j /\ ~IsNaN(km[i]) /\ ~IsNaN(km[j])) => FGe(kbps[i], kbps[j])

\* C5 amended: provided every band's bitrate column does not increase along
\* its table, for d1 <= d2 the per-band bitrate at d2 is undefined if it is
\* undefined at d1 and otherwise not greater than at d1, and the same holds
\* of the weighted bitrate.
C5_Monotone ==
    (ReturnedFrom("get_dl_bitrate") /\ ret.exc = NoExc /\ NonIncreasingKbps) =>
        \A i, j \in 1..Len(call.a.s) :
            Ordered(i, j) =>
                /\ \A b \in 1..3 :
                       /\ IsNaN(ret.bands[i][b]) => IsNaN(ret.bands[j][b])
                       /\ ~IsNaN(ret.bands[j][b]) => FGe(ret.bands[i][b], ret.bands[j][b])
                /\ IsNaN(ret.val[i]) => IsNaN(ret.val[j])
                /\ ~IsNaN(ret.val[j]) => FGe(ret.val[i], ret.val[j])

C5_Witness ==
    /\ ReturnedFrom("get_dl_bitrate")
    /\ ret.exc = NoExc
    /\ NonIncreasingKbps
    /\ Len(call.a.s) = 2
    /\ Ordered(1, 2)
    /\ FGt(ret.bands[1][2], ret.bands[2][2])
    /\ FGt(ret.val[1], ret.val[2])

\* a call of poiddatareq whose batch has exactly one bad element, at index k:
\* non-numeric, undefined, or raising an error in the bitrate lookup
BadElem(e) ==
    \/ e \in {Str, None, NaN}
    \/ get_dl_bitrate(self, Array(<<e>>)).exc # NoExc

OneBadAt(k) ==
    /\ BadElem(call.a.s[k])
    /\ \A i \in 1..Len(call.a.s) : i # k => ~BadElem(call.a.s[i])

\* C8: poiddatareq never raises for per-element bad data: with one bad element
\* in the batch it returns an array of the batch's length in which the bad
\* element is undefined and every other element has the value it has in the
\* batch without the bad element.
C8_BadElementIsolated ==
    ReturnedFrom("poiddatareq") =>
        \A k \in 1..Len(call.a.s) :
            OneBadAt(k) =>
                /\ ret.exc = NoExc
                /\ Len(ret.val) = Len(call.a.s)
                /\ IsNaN(ret.val[k])
                /\ Without(ret.val, k) = poiddatareq(self, Array(Without(call.a.s, k))).val

(***************************************************************************)
(* Properties of upoprbu, cellavcap and sufcapch                           *)
(***************************************************************************)
BinaryOps == {"upoprbu", "cellavcap", "sufcapch"}

\* the i-th element of the result of the operation on a scalar and an array
Applied(op, x, y) ==
    IF op = "upoprbu" THEN FDiv(x, y)
    ELSE IF op = "cellavcap" THEN FSub(x, y)
    ELSE FGt(x, y)

\* the result is the array of the operation applied element by element, the
\* scalar replicated, with the length n of the array argument
IsBroadcast ==
    LET n == IF call.a.k = "scalar" THEN Len(call.b.s) ELSE Len(call.a.s)
    IN  /\ ret.exc = NoExc
        /\ Len(ret.val) = n
        /\ \A i \in 1..n :
               ret.val[i] = Applied(call.op, At(call.a.s, i), At(call.b.s, i))

ScalarWithArray ==
    /\ pc = "returned"
    /\ call.op \in BinaryOps
    /\ \/ call.a.k = "scalar" /\ call.b.k = "array"
       \/ call.a.k = "array" /\ call.b.k = "scalar"

\* C6 as stated: each of upoprbu, cellavcap and sufcapch, called with one
\* scalar and one array of length n, the scalar in either position, returns
\* without error the array of length n of the operation applied to the scalar
\* and each element.
C6_BroadcastAsStated == ScalarWithArray => IsBroadcast

\* C6 amended: sufcapch broadcasts a scalar in either position; upoprbu and
\* cellavcap broadcast a scalar in the first position only: with the scalar
\* second and an array of length n # 1 first they raise ValueError.
C6_Broadcast ==
    ScalarWithArray =>
        IF call.op # "sufcapch" /\ call.b.k = "scalar" /\ Len(call.a.s) # 1
        THEN ret.exc = "ValueError"
        ELSE IsBroadcast

C6_Witness ==
    /\ ScalarWithArray
    /\ call.op = "cellavcap"
    /\ call.a = Scalar(Num(60))
    /\ call.b = Array(<<Num(3), Num(60)>>)
    /\ ret.val = <<Num(57), Num(0)>>

\* both arguments are non-scalar (size # 1) and of different lengths
BothNonScalarMismatch ==
    /\ Len(call.a.s) # 1
    /\ Len(call.b.s) # 1
    /\ Len(call.a.s) # Len(call.b.s)

\* C7: upoprbu, cellavcap and sufcapch called with two non-scalar arguments
\* of different lengths raise ValueError and compute no result; the object's
\* configuration and data never change, and a call with valid arguments after
\* a raised one returns its normal result.
C7_MismatchRaises ==
    /\ [](( pc = "returned" /\ call.op \in BinaryOps) =>
            /\ BothNonScalarMismatch => (ret.exc = "ValueError" /\ ret.val = <<>>)
            /\ (aborted = "size" /\ Len(call.a.s) = Len(call.b.s)) => IsBroadcast)
    /\ [][self' = self]_vars

C7_Witness ==
    /\ pc = "returned"
    /\ call.op = "upoprbu"
    /\ aborted = "size"
    /\ Len(call.a.s) = 2 /\ Len(call.b.s) = 2
    /\ ret.exc = NoExc
    /\ Len(ret.val) = 2

(***************************************************************************)
(* The point table returned by calculate_buffer_areas                      *)
(***************************************************************************)
\* the run has returned its point table
PipelineDone == pc = "done"

\* the rows of the point table with no assigned site
Unassigned == {i \in 1..Len(pois_within_cellsites) :
                  pois_within_cellsites[i].ict_id = NoSite}

\* C9: in the point table returned by calculate_buffer_areas, every point with
\* no assigned site (ict_id undefined) has cellavcap = 0 and sufcapch = false,
\* in live mode and in precomputed mode
C9_UnassignedInsufficient ==
    PipelineDone =>
        \A i \in Unassigned :
            /\ pois_within_cellsites[i].cellavcap = Num(0)
            /\ pois_within_cellsites[i].sufcapch = FALSE

\* a returned table in precomputed mode holding a point with no site next to
\* a point whose site has sufficient capacity
C9_Witness ==
    /\ PipelineDone
    /\ self.visibility.given
    /\ Unassigned # {}
    /\ \E i \in 1..Len(pois_within_cellsites) :
           /\ pois_within_cellsites[i].ict_id # NoSite
           /\ pois_within_cellsites[i].sufcapch = TRUE

(***************************************************************************)
(* Live mode: calls of the line-of-sight oracle                            *)
(***************************************************************************)
\* the run is in live mode and has reached the visibility analysis
LiveRun == ~self.visibility.given /\ pc \notin {"start", "sjoin"}

\* the row has been visited by the apply of _get_visibility_status
Visited(i) == pc = "visibility" => i <= Len(vis_results)

\* the calls of the oracle made for the point of a row
CallsFor(i) == {k \in 1..Len(oracle_calls) :
                   oracle_calls[k][1] = pois_within_cellsites[i].poi_id}

\* the (ground_distance, is_visible) pair of a visited row
StatusOf(i) ==
    IF pc = "visibility" THEN vis_results[i]
    ELSE <<pois_within_cellsites[i].ground_distance, pois_within_cellsites[i].is_visible>>

\* C10: in live mode, during one run of calculate_buffer_areas, the oracle
\* perform_pair_analysis is invoked exactly once for each point assigned to a
\* site, with that (point id, site id) pair, and never for a point outside
\* every buffer; such a point gets undefined ground_distance and is_visible
C10_OracleOncePerAssigned ==
    LiveRun =>
        /\ \A i \in 1..Len(pois_within_cellsites) :
               LET row == pois_within_cellsites[i]
               IN  IF row.ict_id = NoSite
                   THEN /\ CallsFor(i) = {}
                        /\ Visited(i) => StatusOf(i) = <<NaN, "nan">>
                   ELSE IF Visited(i)
                        THEN /\ Cardinality(CallsFor(i)) = 1
                             /\ \A k \in CallsFor(i) :
                                    oracle_calls[k] = <<row.poi_id, row.ict_id>>
                        ELSE CallsFor(i) = {}
        /\ \A k \in 1..Len(oracle_calls) :
               \E i \in 1..Len(pois_within_cellsites) : k \in CallsFor(i)

\* a finished live run with one point assigned to a site, for which the oracle
\* was called, and one point outside every buffer
C10_Witness ==
    /\ PipelineDone
    /\ ~self.visibility.given
    /\ Unassigned # {}
    /\ Len(oracle_calls) = 1
    /\ \E i \in 1..Len(pois_within_cellsites) :
           /\ pois_within_cellsites[i].ict_id # NoSite
           /\ oracle_calls[1] = <<pois_within_cellsites[i].poi_id,
                                  pois_within_cellsites[i].ict_id>>

(***************************************************************************)
(* Precomputed mode                                                        *)
(***************************************************************************)
\* the point table carries its site, distance and visibility columns
HasVisibilityColumns == pc \in {"poi_level", "ring_level", "site_level", "merge", "done"}

\* the pairs of order 1 supplied for a point
FirstOrderPairs(poi_id) ==
    {v \in 1..Len(self.visibility.data) :
        /\ self.visibility.data[v].order = 1
        /\ self.visibility.data[v].poi_id = poi_id}

\* C11: exactly one visibility mode is active per run, fixed by whether a table
\* was supplied at construction; with a table no oracle object is set up, no
\* oracle call occurs, and each point's site, ground distance and visibility
\* flag come only from the pairs of order 1 with its point id
C11_PrecomputedOnlyFirstOrder ==
    /\ self.visibility_analyzer = ~self.visibility.given
    /\ self.visibility.given => pc \notin {"sjoin", "visibility"}
    /\ ~self.visibility.given => pc # "precomputed"
    /\ self.visibility.given =>
           /\ oracle_calls = <<>>
           /\ HasVisibilityColumns =>
                  \A i \in 1..Len(pois_within_cellsites) :
                     LET row == pois_within_cellsites[i]
                         pairs == FirstOrderPairs(row.poi_id)
                     IN  IF pairs = {}
                         THEN /\ row.ict_id = NoSite
                              /\ row.ground_distance = NaN
                              /\ row.is_visible = "nan"
                         ELSE \E v \in pairs :
                                 /\ row.ict_id = self.visibility.data[v].ict_id
                                 /\ row.ground_distance = self.visibility.data[v].ground_distance
                                 /\ row.is_visible = self.visibility.data[v].is_visible

\* a returned table in precomputed mode for a point that has a pair of order 1
\* and a pair of another order
C11_Witness ==
    /\ PipelineDone
    /\ self.visibility.given
    /\ \E i \in 1..Len(pois_within_cellsites) :
           /\ FirstOrderPairs(pois_within_cellsites[i].poi_id) # {}
           /\ \E v \in 1..Len(self.visibility.data) :
                  /\ self.visibility.data[v].order # 1
                  /\ self.visibility.data[v].poi_id = pois_within_cellsites[i].poi_id

(***************************************************************************)
(* Buffers and rings                                                       *)
(***************************************************************************)
\* the buffer/ring loop has run
RingsBuilt == Len(cellsites_gdf) > 0

\* C12: after the buffer/ring loop, for every site the clipped rings of the
\* radii min_radius, min_radius + radius_step, ..., max_radius are pairwise
\* disjoint and their union is the site's clipped buffer of max_radius; the
\* first ring is the first buffer and every later ring is the current buffer
\* minus the previous one
C12_RingsPartitionBuffer ==
    RingsBuilt =>
        \A i \in 1..Len(cellsites_gdf) :
            LET site == cellsites_gdf[i]
            IN  /\ \A r1 \in Radii(self), r2 \in Radii(self) :
                       r1 # r2 => site.clring[r1] \cap site.clring[r2] = {}
                /\ UNION {site.clring[r] : r \in Radii(self)} = site.clbuffer[self.max_radius]
                /\ site.clring[self.min_radius] = site.clbuffer[self.min_radius]
                /\ \A r \in Radii(self) \ {self.min_radius} :
                       site.clring[r] = site.clbuffer[r] \ site.clbuffer[r - self.radius_step]
                /\ Len(rings_gdf) = Len(RadiiSeq(self).val) * Len(cellsites_gdf)
                /\ \A k \in 1..Len(RadiiSeq(self).val) :
                       LET row == rings_gdf[(k - 1) * Len(cellsites_gdf) + i]
                           r == RadiiSeq(self).val[k]
                       IN  /\ row.ict_id = site.ict_id
                           /\ row.buffer = Abs(r)
                           /\ row.geometry = site.clring[r]

\* a site with a non-empty first ring and a non-empty later ring, next to a
\* second site that clips them
C12_Witness ==
    /\ RingsBuilt
    /\ Len(cellsites_gdf) = 2
    /\ \E i \in 1..Len(cellsites_gdf) :
           /\ cellsites_gdf[i].clring[self.min_radius] # {}
           /\ cellsites_gdf[i].clring[self.max_radius] # {}
           /\ cellsites_gdf[i].clbuffer[self.max_radius]
                  # Buffer(self, cellsites_gdf[i].cell, self.max_radius)

(***************************************************************************)
(* Live mode: assignment of points to sites                                *)
(***************************************************************************)
\* the buffers of buffers_gdf that contain a cell, by row number
BuffersContaining(cell) ==
    {b \in 1..Len(buffers_gdf) : cell \in buffers_gdf[b].geometry}

\* the rows of the point table for a point id
RowsOf(poi_id) ==
    {i \in 1..Len(pois_within_cellsites) : pois_within_cellsites[i].poi_id = poi_id}

\* C13: in live mode every point is assigned to at most one site, a site whose
\* clipped buffer of max_radius contains the point; of several such sites the
\* first match is kept, and a point contained in no buffer stays in the table
\* with no site
C13_SingleAssignment ==
    (LiveRun /\ RingsBuilt) =>
        \A p \in 1..Len(self.poi) :
            LET hits == BuffersContaining(self.poi[p].cell)
            IN  /\ Cardinality(RowsOf(self.poi[p].poi_id)) = 1
                /\ \A i \in RowsOf(self.poi[p].poi_id) :
                       IF hits = {}
                       THEN pois_within_cellsites[i].ict_id = NoSite
                       ELSE \E b \in hits :
                               /\ \A c \in hits : b <= c
                               /\ pois_within_cellsites[i].ict_id = buffers_gdf[b].ict_id

\* a live run with two sites whose buffers both contain a point, which is
\* assigned to the first of them, and a point in no buffer
C13_Witness ==
    /\ LiveRun
    /\ Len(buffers_gdf) = 2
    /\ buffers_gdf[1].ict_id # buffers_gdf[2].ict_id
    /\ \E i \in 1..Len(pois_within_cellsites), j \in 1..Len(pois_within_cellsites) :
           /\ BuffersContaining(pois_within_cellsites[i].cell) = {1, 2}
           /\ pois_within_cellsites[i].ict_id = buffers_gdf[1].ict_id
           /\ BuffersContaining(pois_within_cellsites[j].cell) = {}
           /\ pois_within_cellsites[j].ict_id = NoSite

(***************************************************************************)
(* Reference traffic table                                                 *)
(***************************************************************************)
\* the object was constructed although the traffic table has no row for its country
MissingCountryRow == CountryRows(self) = {}

\* C14: when the reference traffic table has no row for the configured
\* country, construction fails; no Capacity object exists whose later call is
\* the first place where the missing row is reported
C14_MissingRowFatalAtInit ==
    ~(/\ MissingCountryRow
      /\ pc = "raised"
      /\ ret.exc = "ValueError")

(***************************************************************************)
(* Cell site level                                                         *)
(***************************************************************************)
\* the per-site table has been computed
SitesAggregated == pc \in {"merge", "done"}

\* the rows of rings_gdf of a site
RingsOf(ict_id) == {k \in 1..Len(rings_gdf) : rings_gdf[k].ict_id = ict_id}

\* every ring of the site has a defined utilisation
AllRingsDefined(ict_id) == \A k \in RingsOf(ict_id) : ~IsNaN(rings_gdf[k].upoprbu)

RECURSIVE PlainSum(_, _)
\* the arithmetic sum of the utilisation of the rings of a set, from row k on
PlainSum(S, k) ==
    IF k > Len(rings_gdf) THEN Num(0)
    ELSE IF k \in S THEN FAdd(rings_gdf[k].upoprbu, PlainSum(S, k + 1))
    ELSE PlainSum(S, k + 1)

\* C15: per site, when every ring of the site has a defined utilisation, the
\* site's total is the sum of upoprbu over its rings and its cellavcap is
\* avrbpdsch minus that sum, negative values included (not clamped to zero);
\* a point assigned to the site carries exactly that value in the output table
C15_SiteCapacityIsDifference ==
    SitesAggregated =>
        \A s \in 1..Len(cellsites_rbu) :
            LET site == cellsites_rbu[s]
                total == PlainSum(RingsOf(site.ict_id), 1)
            IN  AllRingsDefined(site.ict_id) =>
                    /\ site.upoprbu = total
                    /\ site.cellavcap = FSub(avrbpdsch(self).val[1], total)
                    /\ PipelineDone =>
                           \A i \in 1..Len(pois_within_cellsites) :
                               pois_within_cellsites[i].ict_id = site.ict_id =>
                                   /\ pois_within_cellsites[i].upoprbu = total
                                   /\ pois_within_cellsites[i].cellavcap = site.cellavcap

\* a returned table with a point assigned to an over-subscribed site: two
\* rings with a defined, positive utilisation and a negative capacity
C15_Witness ==
    /\ PipelineDone
    /\ \E s \in 1..Len(cellsites_rbu) :
           /\ AllRingsDefined(cellsites_rbu[s].ict_id)
           /\ Cardinality({k \in RingsOf(cellsites_rbu[s].ict_id) :
                               FGt(rings_gdf[k].upoprbu, Num(0))}) >= 2
           /\ FGt(Num(0), cellsites_rbu[s].cellavcap)
           /\ \E i \in 1..Len(pois_within_cellsites) :
                  /\ pois_within_cellsites[i].ict_id = cellsites_rbu[s].ict_id
                  /\ pois_within_cellsites[i].cellavcap = cellsites_rbu[s].cellavcap

(***************************************************************************)
(* Ring level: population                                                  *)
(***************************************************************************)
\* the ring-level columns have been computed
RingsPopulated == pc \in {"site_level", "merge", "done"}

\* the samples of the population input contained in a ring, by row number
SamplesIn(k) ==
    {q \in 1..Len(self.population_data) :
        self.population_data[q].cell \in rings_gdf[k].geometry}

RECURSIVE PopulationOf(_, _)
\* the total population of the samples of a set, from row q on
PopulationOf(S, q) ==
    IF q > Len(self.population_data) THEN 0
    ELSE (IF q \in S THEN self.population_data[q].population ELSE 0)
         + PopulationOf(S, q + 1)

RECURSIVE RingsTotal(_)
\* the total of the population column of rings_gdf, from row k on
RingsTotal(k) ==
    IF k > Len(rings_gdf) THEN Num(0)
    ELSE FAdd(rings_gdf[k].population, RingsTotal(k + 1))

\* the Voronoi polygons of the run are an exclusive partition
ExclusivePolygons ==
    \A i, j \in 1..Len(cellsites_gdf) :
        i # j => cellsites_gdf[i].voronoi_polygons \cap cellsites_gdf[j].voronoi_polygons = {}

\* C16: the population of a ring (site, radius) is the sum of the populations
\* of exactly the samples contained in the ring's clipped geometry; a ring
\* with no sample has population 0, a sample outside every ring contributes
\* to none, no sample is counted in more than one ring, and the total over
\* all rings never exceeds the total population of the input.  Stated for the
\* runs whose Voronoi polygons are exclusive, the only ones the claim is about
C16_RingPopulation ==
    (RingsPopulated /\ ExclusivePolygons) =>
        /\ \A k \in 1..Len(rings_gdf) :
               /\ rings_gdf[k].population = Num(PopulationOf(SamplesIn(k), 1))
               /\ SamplesIn(k) = {} => rings_gdf[k].population = Num(0)
        /\ \A q \in 1..Len(self.population_data) :
               Cardinality({k \in 1..Len(rings_gdf) : q \in SamplesIn(k)}) <= 1
        /\ FLe(RingsTotal(1),
               Num(PopulationOf(1..Len(self.population_data), 1)))

(***************************************************************************)
(* Cell site level: undefined ring utilisation                             *)
(***************************************************************************)
RECURSIVE ZeroedSum(_, _)
\* the sum of the utilisation of the rings of a set with every undefined
\* value replaced by zero, from row k on
ZeroedSum(S, k) ==
    IF k > Len(rings_gdf) THEN Num(0)
    ELSE IF k \in S /\ ~IsNaN(rings_gdf[k].upoprbu)
         THEN FAdd(rings_gdf[k].upoprbu, ZeroedSum(S, k + 1))
    ELSE ZeroedSum(S, k + 1)

\* C17: an undefined ring utilisation is never counted as zero in the
\* per-site aggregation: a site with at least one such ring does not get the
\* available capacity it would have if that ring's utilisation were 0
C17_UndefinedRingNotZero ==
    SitesAggregated =>
        \A s \in 1..Len(cellsites_rbu) :
            ~AllRingsDefined(cellsites_rbu[s].ict_id) =>
                cellsites_rbu[s].cellavcap
                    # FSub(avrbpdsch(self).val[1], ZeroedSum(RingsOf(cellsites_rbu[s].ict_id), 1))

(***************************************************************************)
(* The sufficiency flag of the returned table                              *)
(***************************************************************************)
\* the rows of the per-site table for a site identifier
SiteRecords(ict_id) == {s \in 1..Len(cellsites_rbu) : cellsites_rbu[s].ict_id = ict_id}

\* the per-band downlink bitrates at a distance
BandsAt(distance) == get_dl_bitrate(self, Array(<<distance>>)).bands[1]

\* C18: in the returned point table sufcapch is true for a point only if the
\* point has an assigned site with a per-site capacity record, its ground
\* distance is defined and <= max_radius, its downlink bitrate at that
\* distance is defined for all three bands, and the site's available capacity
\* is strictly greater than the point's required RB
C18_SufficientOnlyIf ==
    PipelineDone =>
        \A i \in 1..Len(pois_within_cellsites) :
            LET row == pois_within_cellsites[i]
            IN  row.sufcapch = TRUE =>
                    /\ row.ict_id # NoSite
                    /\ SiteRecords(row.ict_id) # {}
                    /\ IsNum(row.ground_distance)
                    /\ FLe(row.ground_distance, Num(self.max_radius))
                    /\ \A j \in 1..3 : ~IsNaN(BandsAt(row.ground_distance)[j])
                    /\ \A s \in SiteRecords(row.ict_id) :
                           /\ row.cellavcap = cellsites_rbu[s].cellavcap
                           /\ FGt(cellsites_rbu[s].cellavcap, row.rbdlthtarg)
                           /\ cellsites_rbu[s].cellavcap # row.rbdlthtarg

\* a returned table with a sufficient point, and a point within max_radius of
\* its site, with a defined bitrate, whose site has exactly the capacity the
\* point requires and which is not sufficient
C18_Witness ==
    /\ PipelineDone
    /\ \E i \in 1..Len(pois_within_cellsites), j \in 1..Len(pois_within_cellsites) :
           /\ pois_within_cellsites[i].sufcapch = TRUE
           /\ pois_within_cellsites[j].sufcapch = FALSE
           /\ SiteRecords(pois_within_cellsites[j].ict_id) # {}
           /\ IsNum(pois_within_cellsites[j].rbdlthtarg)
           /\ FLe(pois_within_cellsites[j].ground_distance, Num(self.max_radius))
           /\ pois_within_cellsites[j].cellavcap = pois_within_cellsites[j].rbdlthtarg

(***************************************************************************)
(* Rows of the returned table                                              *)
(***************************************************************************)
\* C19: the point table returned by calculate_buffer_areas has exactly one
\* row per input point of interest, in live mode and in precomputed mode, for
\* every supplied visibility table (zero or several pairs of order 1 for a
\* point included) and every site collection (duplicate identifiers included)
C19_OneRowPerPoint ==
    PipelineDone =>
        /\ Len(pois_within_cellsites) = Len(self.poi)
        /\ \A p \in 1..Len(self.poi) : Cardinality(RowsOf(self.poi[p].poi_id)) = 1

====
